---- MODULE Spec2Model ----
(***************************************************************************)
(* A model of the WAD archive reader (src/src/assets/wad/file.rs), the     *)
(* overlay stack (src/src/wad/stack.rs), the picture decoder and the patch *)
(* table (src/src/assets/patch.rs).                                        *)
(*                                                                         *)
(* Five specifications share the variables below:                          *)
(*   Spec       one opened WadFile and the queries made on it;             *)
(*   SpecStack  a WadStack being built and queried;                        *)
(*   SpecPatch  Patch::load decoding one lump, one loop iteration a step;  *)
(*   SpecBank   PatchBank::load on one archive, one name a round;          *)
(*   SpecOpen   WadFile::open on one file, one directory entry or lump a   *)
(*              step.                                                      *)
(* Rust indices are 0-based and are kept 0-based here; a TLA+ sequence is  *)
(* read through At and Slice.                                              *)
(***************************************************************************)
EXTENDS Integers, Sequences, FiniteSets, TLC

VARIABLES
    \* WadFile (file.rs:19-24)
    lumps,            \* Vec<Lump>, in directory order
    lump_indices,     \* HashMap<String, Vec<usize>>
    call,             \* the last query made on the WadFile
    result,           \* what that query returned
    \* WadStack (stack.rs:10-12)
    stack,            \* "none" | "checked" | "unchecked": how the stack was built
    wads,             \* Vec<Arc<dyn Wad>>
    stackCall,        \* the last call made on the stack
    stackResult,      \* what that call returned
    \* Patch::load (patch.rs:35-118)
    data,             \* lump.data()
    pc,               \* position in Patch::load
    cursor,           \* cursor.position()
    width, height, top, left,
    column_offsets,   \* Vec<u32>
    column,           \* how many columns have been started
    columns,          \* Vec<Column>
    posts,            \* the posts of the column being read
    last_y_offset,    \* Option<u16>: None is -1
    patch,            \* what Patch::load returned
    lump_name,        \* lump.name().to_owned()
    \* PatchBank::load (patch.rs:161-193)
    bank_pc,          \* position in PatchBank::load
    names_cursor,     \* the position of the cursor over the PNAMES lump
    count,            \* the count read from the PNAMES lump
    patches,          \* Vec<Patch>
    bank,             \* what PatchBank::load returned
    \* WadFile::open (file.rs:72-211)
    file_bytes,       \* the bytes of the file at `path`
    open_pc,          \* position in open_impl
    kind,             \* Header.kind
    lump_count,       \* Header.lump_count
    directory_offset, \* Header.directory_offset
    lump_locations,   \* Directory.lump_locations
    opened            \* what open returned

wadVars   == <<lumps, lump_indices, call, result>>
stackVars == <<stack, wads, stackCall, stackResult>>
patchVars == <<data, pc, cursor, width, height, top, left, column_offsets,
               column, columns, posts, last_y_offset, patch, lump_name>>
bankVars  == <<bank_pc, names_cursor, count, patches, bank>>
openVars  == <<file_bytes, open_pc, kind, lump_count, directory_offset, lump_locations,
               opened>>
vars      == <<wadVars, stackVars, patchVars, bankVars, openVars>>

(***************************************************************************)
(* Bounds and input sets.                                                  *)
(***************************************************************************)
MaxLumps == 4

Names == {"A", "B", "C"}

\* Lump contents used for the archives of Spec; what a lump holds plays no
\* part in a query, only its name and position do.
LumpData == {<< >>}

\* 0-based access to a Vec.
At(v, i) == v[i + 1]

\* v[a..b]: the elements at indices a, ..., b-1.
Slice(v, a, b) == SubSeq(v, a + 1, b)

SeqsUpTo(S, n) == UNION {[1..k -> S] : k \in 0..n}

(***************************************************************************)
(* WadFile: src/src/assets/wad/file.rs                                     *)
(***************************************************************************)
Lump == [name : Names, data : LumpData]

\* HashMap::entry(name).and_modify(push(index)).or_insert(vec![index])
IndexEntry(m, name, index) ==
    IF name \in DOMAIN m
    THEN [m EXCEPT ![name] = Append(@, index)]
    ELSE [n \in DOMAIN m \cup {name} |-> IF n = name THEN <<index>> ELSE m[n]]

RECURSIVE BuildFrom(_, _, _)
BuildFrom(m, locations, k) ==
    IF k > Len(locations) THEN m
    ELSE BuildFrom(IndexEntry(m, locations[k].name, k - 1), locations, k + 1)

EmptyMap == [n \in {} |-> << >>]

\* build_indices: every location's 0-based index, appended under its name in
\* directory order.
build_indices(locations) == BuildFrom(EmptyMap, locations, 1)

\* Query results.  Ok carries a slice of self.lumps: the index it starts at and
\* the lumps it holds (a &Lump is a slice of one).  None is Ok(None).
Ok(start, ls) == [tag |-> "Ok", start |-> start, lumps |-> ls, desc |-> ""]
None          == [tag |-> "None", start |-> -1, lumps |-> << >>, desc |-> ""]
Err(d)        == [tag |-> "Err", start |-> -1, lumps |-> << >>, desc |-> d]
Panic         == [tag |-> "Panic", start |-> -1, lumps |-> << >>, desc |-> ""]

\* try_lump_index that takes the first of several indices instead of failing.
try_lump_index_first(name) ==
    IF name \notin DOMAIN lump_indices THEN None
    ELSE Ok(lump_indices[name][1], << >>)

\* try_lump_index: Ok(Some(index)) for exactly one index, Err for any other
\* number of indices under the name, Ok(None) for a name not in the map.
try_lump_index(name) ==
    IF name \notin DOMAIN lump_indices THEN None
    ELSE IF Len(lump_indices[name]) = 1
         THEN Ok(lump_indices[name][1], << >>)
         ELSE Err("found n times")

\* Option::ok_or_else after `?`: Ok(None) becomes the error, the rest passes.
OkOrElse(r, d) == IF r.tag = "None" THEN Err(d) ELSE r

try_lump(name) ==
    LET index == try_lump_index(name) IN
    IF index.tag # "Ok" THEN index
    ELSE Ok(index.start, <<At(lumps, index.start)>>)

lump(name) == OkOrElse(try_lump(name), "missing")

\* try_lumps_following with the bound check one lump more lenient.
try_lumps_following_lenient(start, size) ==
    IF size = 0 THEN Panic
    ELSE LET start_index == try_lump_index(start) IN
         IF start_index.tag # "Ok" THEN start_index
         ELSE IF start_index.start + size > Len(lumps)
              THEN Err("missing lumps")
              ELSE Ok(start_index.start,
                      Slice(lumps, start_index.start, start_index.start + size))

\* try_lumps_following with the slice one lump longer.
try_lumps_following_longer(start, size) ==
    IF size = 0 THEN Panic
    ELSE LET start_index == try_lump_index(start) IN
         IF start_index.tag # "Ok" THEN start_index
         ELSE IF start_index.start + size >= Len(lumps)
              THEN Err("missing lumps")
              ELSE Ok(start_index.start,
                      Slice(lumps, start_index.start, start_index.start + size + 1))

\* try_lumps_following: assert!(size > 0); the marker's index through
\* try_lump_index; Err when start_index + size >= lumps.len(); otherwise
\* &lumps[start_index..start_index + size].
try_lumps_following(start, size) ==
    IF size = 0 THEN Panic
    ELSE LET start_index == try_lump_index(start) IN
         IF start_index.tag # "Ok" THEN start_index
         ELSE IF start_index.start + size >= Len(lumps)
              THEN Err("missing lumps")
              ELSE Ok(start_index.start,
                      Slice(lumps, start_index.start, start_index.start + size))

lumps_following(start, size) ==
    LET r == try_lumps_following(start, size) IN
    IF r.tag = "Panic" THEN r ELSE OkOrElse(r, "missing")

\* try_lumps_between that leaves the end marker out of the slice.
try_lumps_between_exclusive(start, end) ==
    LET start_index == try_lump_index(start) IN
    IF start_index.tag = "Err" THEN start_index
    ELSE LET end_index == try_lump_index(end) IN
         IF end_index.tag = "Err" THEN end_index
         ELSE IF start_index.tag = "None" /\ end_index.tag = "None" THEN None
         ELSE IF end_index.tag = "None" THEN Err("start without end")
         ELSE IF start_index.tag = "None" THEN Err("end without start")
         ELSE IF start_index.start > end_index.start THEN Err("start after end")
         ELSE Ok(start_index.start,
                 Slice(lumps, start_index.start, end_index.start))

\* try_lumps_between without the check that start does not come after end.
try_lumps_between_unordered(start, end) ==
    LET start_index == try_lump_index(start) IN
    IF start_index.tag = "Err" THEN start_index
    ELSE LET end_index == try_lump_index(end) IN
         IF end_index.tag = "Err" THEN end_index
         ELSE IF start_index.tag = "None" /\ end_index.tag = "None" THEN None
         ELSE IF end_index.tag = "None" THEN Err("start without end")
         ELSE IF start_index.tag = "None" THEN Err("end without start")
         ELSE IF start_index.start > end_index.start
              THEN Ok(end_index.start,
                      Slice(lumps, end_index.start, start_index.start + 1))
              ELSE Ok(start_index.start,
                      Slice(lumps, start_index.start, end_index.start + 1))

\* try_lumps_between: both indices through try_lump_index (an ambiguous marker
\* is an error, start's first); Ok(None) when both are absent; Err when one is
\* absent or start comes after end; otherwise &lumps[start_index..end_index + 1].
try_lumps_between(start, end) ==
    LET start_index == try_lump_index(start) IN
    IF start_index.tag = "Err" THEN start_index
    ELSE LET end_index == try_lump_index(end) IN
         IF end_index.tag = "Err" THEN end_index
         ELSE IF start_index.tag = "None" /\ end_index.tag = "None" THEN None
         ELSE IF end_index.tag = "None" THEN Err("start without end")
         ELSE IF start_index.tag = "None" THEN Err("end without start")
         ELSE IF start_index.start > end_index.start THEN Err("start after end")
         ELSE Ok(start_index.start,
                 Slice(lumps, start_index.start, end_index.start + 1))

lumps_between(start, end) == OkOrElse(try_lumps_between(start, end), "missing")

(***************************************************************************)
(* WadStack: src/src/wad/stack.rs                                          *)
(***************************************************************************)
MaxWads == 3

\* A lump of `size` bytes.
L(name, size) == [name |-> name, data |-> [i \in 1..size |-> 0]]

\* The files the stack is built from, after the fixtures of stack.rs's tests:
\* an IWAD, a PWAD that redefines its lump and its map block, a PWAD with its
\* markers the other way round, a PWAD with a repeated name and a truncated
\* block, and a path that does not open.
Files == {
    [path |-> "doom2.wad", opens |-> TRUE, wad_type |-> "Iwad",
     lumps |-> <<L("DEMO3", 1), L("MAP01", 0), L("THINGS", 1), L("LINEDEFS", 1),
                 L("S_START", 0), L("SPR", 1), L("S_END", 0)>>],
    [path |-> "biotech.wad", opens |-> TRUE, wad_type |-> "Pwad",
     lumps |-> <<L("DEMO3", 2), L("MAP01", 0), L("THINGS", 2), L("LINEDEFS", 2)>>],
    [path |-> "killer.wad", opens |-> TRUE, wad_type |-> "Pwad",
     lumps |-> <<L("S_END", 0), L("MAP01", 0), L("THINGS", 3), L("S_START", 0)>>],
    [path |-> "broken.wad", opens |-> TRUE, wad_type |-> "Pwad",
     lumps |-> <<L("DEMO3", 3), L("DEMO3", 3), L("S_START", 0), L("MAP01", 0),
                 L("THINGS", 3)>>],
    [path |-> "missing.wad", opens |-> FALSE, wad_type |-> "Iwad",
     lumps |-> << >>]
}

QueryNames == {"DEMO3", "MAP01", "S_START", "S_END", "NONE"}

BlockSizes == 1..2

\* What a query on a stack or on one of its sources returns: nothing, or a
\* slice of one source's lumps (src is that source's 0-based place in wads).
Absent == [tag |-> "None", src |-> -1, start |-> -1, lumps |-> << >>]
Some(src, start, ls) == [tag |-> "Some", src |-> src, start |-> start, lumps |-> ls]

NoStackCall ==
    [op |-> "none", path |-> "", start |-> "", end |-> "", size |-> 0, ok |-> TRUE,
     desc |-> ""]

\* WadFile::open(file)?: the opened file, or the io::Error.
Open(file) == IF file.opens THEN [ok |-> TRUE, wad |-> file]
              ELSE [ok |-> FALSE, wad |-> file]

\* The Wad implementation of a single WadFile, which the stack calls on each
\* of its sources.  It is not part of stack.rs and is written after the
\* contract stack.rs documents and tests: a name must be unique in the file to
\* be found, and the block queries do not include the markers (stack.rs:74,
\* 81-82, 102-103, 151-168).
IndicesOf(w, name) == {i \in 0..(Len(w.lumps) - 1) : At(w.lumps, i).name = name}

IndexOf(w, name) == CHOOSE i \in IndicesOf(w, name) : TRUE

IsUnique(w, name) == Cardinality(IndicesOf(w, name)) = 1

WadLump(src, name) ==
    LET w == At(wads, src) IN
    IF IsUnique(w, name)
    THEN Some(src, IndexOf(w, name), <<At(w.lumps, IndexOf(w, name))>>)
    ELSE Absent

WadLumpsAfter(src, start, size) ==
    LET w == At(wads, src) IN
    IF IsUnique(w, start) /\ IndexOf(w, start) + size < Len(w.lumps)
    THEN Some(src, IndexOf(w, start) + 1,
              Slice(w.lumps, IndexOf(w, start) + 1, IndexOf(w, start) + 1 + size))
    ELSE Absent

WadLumpsBetween(src, start, end) ==
    LET w == At(wads, src) IN
    IF IsUnique(w, start) /\ IsUnique(w, end) /\ IndexOf(w, start) < IndexOf(w, end)
    THEN Some(src, IndexOf(w, start) + 1,
              Slice(w.lumps, IndexOf(w, start) + 1, IndexOf(w, end)))
    ELSE Absent

\* iwad_impl that does not look at the file's type.
iwad_impl_any(file) ==
    LET wad == Open(file) IN
    IF ~wad.ok THEN [ok |-> FALSE, desc |-> "open", wads |-> << >>]
    ELSE [ok |-> TRUE, desc |-> "", wads |-> <<wad.wad>>]

\* iwad_impl: open the file; an IWAD starts the stack, a PWAD is InvalidData.
iwad_impl(file) ==
    LET wad == Open(file) IN
    IF ~wad.ok THEN [ok |-> FALSE, desc |-> "open", wads |-> << >>]
    ELSE IF wad.wad.wad_type = "Iwad"
         THEN [ok |-> TRUE, desc |-> "", wads |-> <<wad.wad>>]
         ELSE [ok |-> FALSE, desc |-> "not an IWAD", wads |-> << >>]

\* add_pwad_impl: open the file; a PWAD is pushed, an IWAD is InvalidData and
\* self.wads is left as it was.
add_pwad_impl(file) ==
    LET wad == Open(file) IN
    IF ~wad.ok THEN [ok |-> FALSE, desc |-> "open", wads |-> wads]
    ELSE IF wad.wad.wad_type = "Pwad"
         THEN [ok |-> TRUE, desc |-> "", wads |-> Append(wads, wad.wad)]
         ELSE [ok |-> FALSE, desc |-> "not a PWAD", wads |-> wads]

\* self.wads.iter().rev().find_map(|wad| wad.lump(name)), from source k down.
RECURSIVE RevFindLump(_, _)
RevFindLump(k, name) ==
    IF k < 0 THEN Absent
    ELSE IF WadLump(k, name).tag = "Some" THEN WadLump(k, name)
         ELSE RevFindLump(k - 1, name)

\* find_map without rev(): from source k up.
RECURSIVE FindLump(_, _)
FindLump(k, name) ==
    IF k >= Len(wads) THEN Absent
    ELSE IF WadLump(k, name).tag = "Some" THEN WadLump(k, name)
         ELSE FindLump(k + 1, name)

RECURSIVE RevFindAfter(_, _, _)
RevFindAfter(k, start, size) ==
    IF k < 0 THEN Absent
    ELSE IF WadLumpsAfter(k, start, size).tag = "Some"
         THEN WadLumpsAfter(k, start, size)
         ELSE RevFindAfter(k - 1, start, size)

RECURSIVE FindAfter(_, _, _)
FindAfter(k, start, size) ==
    IF k >= Len(wads) THEN Absent
    ELSE IF WadLumpsAfter(k, start, size).tag = "Some"
         THEN WadLumpsAfter(k, start, size)
         ELSE FindAfter(k + 1, start, size)

RECURSIVE RevFindBetween(_, _, _)
RevFindBetween(k, start, end) ==
    IF k < 0 THEN Absent
    ELSE IF WadLumpsBetween(k, start, end).tag = "Some"
         THEN WadLumpsBetween(k, start, end)
         ELSE RevFindBetween(k - 1, start, end)

\* WadStack::lump scanning the sources first-to-last.
stack_lump_forward(name) == FindLump(0, name)

\* WadStack::lump
stack_lump(name) == RevFindLump(Len(wads) - 1, name)

\* WadStack::lumps_after scanning the sources first-to-last.
stack_lumps_after_forward(start, size) == FindAfter(0, start, size)

\* WadStack::lumps_after
stack_lumps_after(start, size) == RevFindAfter(Len(wads) - 1, start, size)

\* WadStack::lumps_between
stack_lumps_between(start, end) == RevFindBetween(Len(wads) - 1, start, end)

(***************************************************************************)
(* Patch::load: src/src/assets/patch.rs                                    *)
(***************************************************************************)
MaxWidth == 2

MaxItems == 3

\* The number of posts of the long column: the first post whose tall-patch sum
\* passes 65535 when every post has the raw y-offset 254.
MaxTallPosts == 259

U16Max == 65535

Byte(i) == data[i + 1]

\* cursor.read_u8/u16/u32 succeed when the bytes are there.
CanRead(n) == cursor + n <= Len(data)

U16At(i) == Byte(i) + 256 * Byte(i + 1)

U32At(i) == Byte(i) + 256 * Byte(i + 1) + 65536 * Byte(i + 2) + 16777216 * Byte(i + 3)

\* The i16 a u16 bit pattern stands for.
I16(v) == IF v >= 32768 THEN v - 65536 ELSE v

NoPatch == [tag |-> "None"]

\* .map_err(|_| lump.error("bad patch data"))
BadPatch == [tag |-> "Err", lump |-> lump_name, desc |-> "bad patch data"]

\* A u16 that was computed, and the panic of an overflow check.
Val(v) == [panics |-> FALSE, v |-> v]

Overflow == [panics |-> TRUE, v |-> 0]

\* What last_y_offset + y_offset on u16 can give: the sum, or on overflow what
\* the build makes of it: the sum wrapped around without overflow checks, a
\* panic with them.
AddU16(a, b) ==
    IF a + b <= U16Max THEN {Val(a + b)}
    ELSE {Val((a + b) % (U16Max + 1)), Overflow}

\* A post: the resolved y-offset and the pixels as the slice data[start..end].
Post(y_offset, start, end) == [y_offset |-> y_offset, start |-> start, end |-> end]

Fail ==
    /\ pc' = "returned"
    /\ patch' = BadPatch
    /\ UNCHANGED <<data, cursor, width, height, top, left, column_offsets, column,
                   columns, posts, last_y_offset, lump_name>>

\* The four header fields in the order load reads them: width, height, top,
\* left.
ReadHeader ==
    /\ pc = "header"
    /\ IF ~CanRead(8) THEN Fail
       ELSE /\ width' = U16At(0)
            /\ height' = U16At(2)
            /\ top' = I16(U16At(4))
            /\ left' = I16(U16At(6))
            /\ cursor' = 8
            /\ pc' = IF U16At(0) = 0 THEN "columns" ELSE "offsets"
            /\ UNCHANGED <<data, column_offsets, column, columns, posts,
                           last_y_offset, patch, lump_name>>
    /\ UNCHANGED <<wadVars, stackVars, bankVars, openVars>>

\* One round of `for _ in 0..width { column_offsets.push(read_u32()?) }`.
ReadColumnOffset ==
    /\ pc = "offsets"
    /\ IF ~CanRead(4) THEN Fail
       ELSE /\ column_offsets' = Append(column_offsets, U32At(cursor))
            /\ cursor' = cursor + 4
            /\ pc' = IF Len(column_offsets) + 1 = width THEN "columns" ELSE "offsets"
            /\ UNCHANGED <<data, width, height, top, left, column, columns, posts,
                           last_y_offset, patch, lump_name>>
    /\ UNCHANGED <<wadVars, stackVars, bankVars, openVars>>

\* The head of `for column_offset in column_offsets`: seek to the column, with
\* no posts and no last y-offset.
StartColumn ==
    /\ pc = "columns"
    /\ column < Len(column_offsets)
    /\ cursor' = At(column_offsets, column)
    /\ column' = column + 1
    /\ posts' = << >>
    /\ last_y_offset' = -1
    /\ pc' = "posts"
    /\ UNCHANGED <<data, width, height, top, left, column_offsets, columns, patch,
                   lump_name>>
    /\ UNCHANGED <<wadVars, stackVars, bankVars, openVars>>

\* One round of the post loop: the terminator ends the column; otherwise the
\* y-offset, the length, a padding byte, the pixels and a padding byte.
ReadPost ==
    /\ pc = "posts"
    /\ IF ~CanRead(1) THEN Fail
       ELSE IF Byte(cursor) = 255
       THEN /\ columns' = Append(columns, posts)
            /\ cursor' = cursor + 1
            /\ pc' = "columns"
            /\ UNCHANGED <<data, width, height, top, left, column_offsets, column,
                           posts, last_y_offset, patch, lump_name>>
       ELSE \E y_offset \in IF last_y_offset >= 0 /\ Byte(cursor) <= last_y_offset
                            THEN AddU16(last_y_offset, Byte(cursor))
                            ELSE {Val(Byte(cursor))} :
            IF y_offset.panics
            THEN /\ pc' = "panic"
                 /\ UNCHANGED <<data, cursor, width, height, top, left,
                                column_offsets, column, columns, posts,
                                last_y_offset, patch, lump_name>>
            ELSE IF ~CanRead(3) THEN Fail
            ELSE LET length == Byte(cursor + 1)
                     start  == cursor + 3
                     end    == cursor + 3 + length
                 IN \* data.get(start..end) and the read of the last padding byte
                    IF end > Len(data) \/ end + 1 > Len(data) THEN Fail
                    ELSE /\ posts' = Append(posts, Post(y_offset.v, start, end))
                         /\ last_y_offset' = y_offset.v
                         /\ cursor' = end + 1
                         /\ UNCHANGED <<data, pc, width, height, top, left,
                                        column_offsets, column, columns, patch,
                                        lump_name>>
    /\ UNCHANGED <<wadVars, stackVars, bankVars, openVars>>

\* Ok(Self { name, width, height, top, left, columns })
Finish ==
    /\ pc = "columns"
    /\ column = Len(column_offsets)
    /\ pc' = "returned"
    /\ patch' = [tag |-> "Ok", name |-> lump_name, width |-> width,
                 height |-> height, top |-> top, left |-> left,
                 columns |-> columns]
    /\ UNCHANGED <<data, cursor, width, height, top, left, column_offsets, column,
                   columns, posts, last_y_offset, lump_name>>
    /\ UNCHANGED <<wadVars, stackVars, bankVars, openVars>>

\* The lumps that are decoded.
LE16(v) == <<v % 256, v \div 256>>

LE32(v) == <<v % 256, (v \div 256) % 256, (v \div 65536) % 256, v \div 16777216>>

RECURSIVE Concat(_)
Concat(ss) == IF ss = << >> THEN << >> ELSE Head(ss) \o Concat(Tail(ss))

RawPost(y, pixels) == <<y, Len(pixels), 0>> \o pixels \o <<0>>

Terminator == <<255>>

\* What column data is built of: the terminator, a post of no pixels and a post
\* of one pixel; in a row their y-offsets rise, repeat or fall.
Items == {Terminator, RawPost(1, << >>), RawPost(2, <<7>>)}

Prefixes(b) == {SubSeq(b, 1, k) : k \in 0..Len(b)}

HeaderLen(w) == 8 + 4 * w

\* Where a column offset may point: at the header, at the first item of the
\* column data, four bytes on, and past the end of the lump.
ColumnStarts(w) == {0, HeaderLen(w), HeaderLen(w) + 4, 600}

\* A picture lump of width w with the given column offsets and column data.
Picture(w, offsets, body) ==
    LE16(w) \o LE16(2) \o LE16(3) \o LE16(65534)
    \o Concat([i \in 1..Len(offsets) |-> LE32(offsets[i])]) \o body

\* Every lump of up to maxWidth columns and maxItems items of column data, and
\* every truncation of one.
ShortLumps(maxWidth, maxItems) ==
    UNION {UNION {UNION {Prefixes(Picture(w, offsets, Concat(items)))
                         : items \in SeqsUpTo(Items, maxItems)}
                  : offsets \in [1..w -> ColumnStarts(w)]}
           : w \in 0..maxWidth}

\* One column of n empty posts, each with the raw y-offset 254.
TallLump(n) ==
    Picture(1, <<HeaderLen(1)>>,
            [i \in 1..(4 * n) |-> RawPost(254, << >>)[((i - 1) % 4) + 1]]
            \o Terminator)

(***************************************************************************)
(* PatchBank::load: src/src/assets/patch.rs.  In the archives it reads, a  *)
(* lump's name is the sequence of its characters' codes.                   *)
(***************************************************************************)
MaxNames == 2

\* "PNAMES"
PNAMES == <<80, 78, 65, 77, 69, 83>>

\* The characters LUMP_NAME_REGEX allows: A-Z, 0-9, '[', ']', '-', '_', '\'.
LegalChars == (65..90) \cup (48..57) \cup {91, 93, 45, 95, 92}

\* LUMP_NAME_REGEX.is_match(name): ^[A-Z0-9\[\]\-_\\]+$
LUMP_NAME_REGEX(s) ==
    /\ Len(s) >= 1
    /\ \A i \in 1..Len(s) : s[i] \in LegalChars

\* u8::to_ascii_uppercase
to_ascii_uppercase(b) == IF b \in 97..122 THEN b - 32 ELSE b

\* iter().take_while(|b| b != 0): the bytes before the first zero byte.
TakeWhileNonZero(raw) ==
    LET zeros == {i \in 1..Len(raw) : raw[i] = 0} IN
    IF zeros = {} THEN raw
    ELSE SubSeq(raw, 1, (CHOOSE i \in zeros : \A j \in zeros : i <= j) - 1)

\* Lump::read_raw_name, which is not part of patch.rs: the name of a
\* zero-padded 8-byte field, which must match the lump-name pattern.
read_raw_name(raw) ==
    LET s == TakeWhileNonZero(raw) IN
    IF LUMP_NAME_REGEX(s) THEN [ok |-> TRUE, name |-> s]
    ELSE [ok |-> FALSE, name |-> raw]

\* lump.error(desc)
LumpError(l, desc) == [tag |-> "Err", lump |-> l, desc |-> desc]

U32Of(d, i) ==
    d[i + 1] + 256 * d[i + 2] + 65536 * d[i + 3] + 16777216 * d[i + 4]

\* lump.data() of the PNAMES lump, once wad.lump("PNAMES") has found it.
PnamesData == At(lump(PNAMES).lumps, 0).data

BankFail(e) ==
    /\ bank_pc' = "returned"
    /\ bank' = e
    /\ UNCHANGED <<names_cursor, count, patches>>

\* wad.lump("PNAMES")? and the count: a u32, or "bad patch list data".
BankStart ==
    /\ bank_pc = "start"
    /\ LET l == lump(PNAMES) IN
       IF l.tag # "Ok" THEN BankFail(l)
       ELSE IF Len(At(l.lumps, 0).data) < 4
       THEN BankFail(LumpError(PNAMES, "bad patch list data"))
       ELSE /\ count' = U32Of(At(l.lumps, 0).data, 0)
            /\ names_cursor' = 4
            /\ bank_pc' = "names"
            /\ UNCHANGED <<patches, bank>>
    /\ UNCHANGED <<wadVars, stackVars, patchVars, openVars>>

\* Patch::load(&lump) is entered: its locals as they are before the header is
\* read.
EnterPatchLoad(l) ==
    /\ data' = l.data
    /\ lump_name' = l.name
    /\ pc' = "header"
    /\ cursor' = 0
    /\ width' = 0
    /\ height' = 0
    /\ top' = 0
    /\ left' = 0
    /\ column_offsets' = << >>
    /\ column' = 0
    /\ columns' = << >>
    /\ posts' = << >>
    /\ last_y_offset' = -1
    /\ patch' = NoPatch

\* The head of one round of `for _ in 0..count`: read_exact of the 8 bytes of
\* a name, every byte upper-cased, read_raw_name, wad.lump(name)?, and the call
\* of Patch::load on that lump.
BankReadName ==
    /\ bank_pc = "names"
    /\ Len(patches) < count
    /\ IF names_cursor + 8 > Len(PnamesData)
       THEN /\ BankFail(LumpError(PNAMES, "bad patch list data"))
            /\ UNCHANGED patchVars
       ELSE LET raw   == Slice(PnamesData, names_cursor, names_cursor + 8)
                upper == [i \in 1..8 |-> to_ascii_uppercase(raw[i])]
                n     == read_raw_name(upper)
            IN IF ~n.ok
               THEN /\ BankFail(LumpError(PNAMES, "contains bad lump name"))
                    /\ UNCHANGED patchVars
               ELSE IF lump(n.name).tag # "Ok"
               THEN /\ BankFail(lump(n.name))
                    /\ UNCHANGED patchVars
               ELSE /\ EnterPatchLoad(At(lump(n.name).lumps, 0))
                    /\ names_cursor' = names_cursor + 8
                    /\ bank_pc' = "loading"
                    /\ UNCHANGED <<count, patches, bank>>
    /\ UNCHANGED <<wadVars, stackVars, openVars>>

\* BankPush that puts the new patch in front.
BankPush_in_front ==
    /\ bank_pc = "loading"
    /\ pc = "returned"
    /\ IF patch.tag = "Err" THEN BankFail(patch)
       ELSE /\ patches' = <<patch>> \o patches
            /\ bank_pc' = "names"
            /\ UNCHANGED <<names_cursor, count, bank>>
    /\ UNCHANGED <<wadVars, stackVars, patchVars, openVars>>

\* The tail of the round: Patch::load(..)? returns its error from the whole
\* load; otherwise patches.push(patch).
BankPush ==
    /\ bank_pc = "loading"
    /\ pc = "returned"
    /\ IF patch.tag = "Err" THEN BankFail(patch)
       ELSE /\ patches' = Append(patches, patch)
            /\ bank_pc' = "names"
            /\ UNCHANGED <<names_cursor, count, bank>>
    /\ UNCHANGED <<wadVars, stackVars, patchVars, openVars>>

\* Ok(Self(patches)), after the last round.
BankFinish ==
    /\ bank_pc = "names"
    /\ Len(patches) = count
    /\ bank_pc' = "returned"
    /\ bank' = [tag |-> "Ok", patches |-> patches]
    /\ UNCHANGED <<names_cursor, count, patches>>
    /\ UNCHANGED <<wadVars, stackVars, patchVars, openVars>>

\* The archives the patch table is loaded from.
Pad8(s) == s \o [i \in 1..(8 - Len(s)) |-> 0]

\* "P1", "p1", "P2", "p*" and the empty name, as the 8 bytes of a name field.
RawNames ==
    {Pad8(<<80, 49>>), Pad8(<<112, 49>>), Pad8(<<80, 50>>), Pad8(<<112, 42>>),
     Pad8(<< >>)}

\* A name list cut short: inside the count, inside a name, or not at all.
NameListCuts(b) == {SubSeq(b, 1, k) : k \in {j \in 0..Len(b) : j = Len(b) \/ j % 4 = 3}}

\* Every PNAMES lump of up to maxNames names, and its truncations.
NameLists(maxNames) ==
    UNION {NameListCuts(LE32(Len(ns)) \o Concat(ns)) : ns \in SeqsUpTo(RawNames, maxNames)}

\* One column with one post of one pixel.
PictureA == Picture(1, <<HeaderLen(1)>>, RawPost(2, <<7>>) \o Terminator)

\* Two columns that share one post of no pixels.
PictureB ==
    Picture(2, <<HeaderLen(2), HeaderLen(2)>>, RawPost(1, << >>) \o Terminator)

\* A column without its terminator.
PictureCut == Picture(1, <<HeaderLen(1)>>, RawPost(2, <<7>>))

NamedLump(n, d) == [name |-> n, data |-> d]

\* The directories around a PNAMES lump d: both pictures there; a picture that
\* does not decode; a picture name twice; a picture missing; no PNAMES; PNAMES
\* twice; a picture with the long column.
BankWads(d, tallPosts) ==
    LET N  == NamedLump(PNAMES, d)
        P1 == <<80, 49>>
        P2 == <<80, 50>>
    IN {<<N, NamedLump(P1, PictureA), NamedLump(P2, PictureB)>>,
        <<NamedLump(P2, PictureB), N, NamedLump(P1, PictureCut)>>,
        <<N, NamedLump(P1, PictureA), NamedLump(P1, PictureB),
          NamedLump(P2, PictureB)>>,
        <<N, NamedLump(P2, PictureB)>>,
        <<NamedLump(P1, PictureA)>>,
        <<N, N, NamedLump(P1, PictureA)>>,
        <<N, NamedLump(P1, PictureA), NamedLump(P2, TallLump(tallPosts))>>}

(***************************************************************************)
(* WadFile::open: src/src/assets/wad/file.rs.  The file is its bytes; a    *)
(* lump's name is the sequence of its characters' codes.                   *)
(***************************************************************************)
MaxEntries == 3

\* b"IWAD" and b"PWAD"
IWAD == <<73, 87, 65, 68>>

PWAD == <<80, 87, 65, 68>>

\* wad::Error::malformed(path, desc), with what desc names.
Malformed(desc, what) ==
    [tag |-> "Err", kind |-> "Malformed", desc |-> desc, what |-> what]

\* .err_path(path) on an io::Error.
IoError == [tag |-> "Err", kind |-> "Io", desc |-> "", what |-> << >>]

LumpLocation(offset, size, n) == [offset |-> offset, size |-> size, name |-> n]

Min(a, b) == IF a <= b THEN a ELSE b

\* file.seek(SeekFrom::Start(offset)); file.take(n).read_to_end(..): the bytes
\* the file has in [offset, offset + n), none when offset is past its end.
ReadUpTo(offset, n) ==
    IF offset >= Len(file_bytes) THEN << >>
    ELSE Slice(file_bytes, offset, Min(offset + n, Len(file_bytes)))

OpenFail(e) ==
    /\ open_pc' = "returned"
    /\ opened' = e
    /\ UNCHANGED <<file_bytes, kind, lump_count, directory_offset, lump_locations,
                   lumps, lump_indices>>

\* read_header: read_kind takes up to 4 bytes, which must be IWAD or PWAD; the
\* two u32 that follow are the lump count and the directory offset.
OpenHeader ==
    /\ open_pc = "header"
    /\ LET buffer == ReadUpTo(0, 4) IN
       IF buffer # IWAD /\ buffer # PWAD
       THEN OpenFail(Malformed("not a WAD file", << >>))
       ELSE IF Len(file_bytes) < 12 THEN OpenFail(IoError)
       ELSE /\ kind' = IF buffer = IWAD THEN "Iwad" ELSE "Pwad"
            /\ lump_count' = U32Of(file_bytes, 4)
            /\ directory_offset' = U32Of(file_bytes, 8)
            /\ open_pc' = "directory"
            /\ UNCHANGED <<file_bytes, lump_locations, opened, lumps, lump_indices>>
    /\ UNCHANGED <<call, result, stackVars, patchVars, bankVars>>

\* One round of read_directory's loop: offset, size and the 8 bytes of the
\* name; the name is the bytes before the first zero byte and must match
\* LUMP_NAME_REGEX.
OpenDirectoryEntry ==
    /\ open_pc = "directory"
    /\ Len(lump_locations) < lump_count
    /\ LET at == directory_offset + 16 * Len(lump_locations) IN
       IF at + 16 > Len(file_bytes) THEN OpenFail(IoError)
       ELSE LET offset == U32Of(file_bytes, at)
                size   == U32Of(file_bytes, at + 4)
                n      == TakeWhileNonZero(Slice(file_bytes, at + 8, at + 16))
            IN IF ~LUMP_NAME_REGEX(n)
               THEN OpenFail(Malformed("illegal lump name", n))
               ELSE /\ lump_locations' =
                           Append(lump_locations, LumpLocation(offset, size, n))
                    /\ UNCHANGED <<file_bytes, open_pc, kind, lump_count,
                                   directory_offset, opened, lumps, lump_indices>>
    /\ UNCHANGED <<call, result, stackVars, patchVars, bankVars>>

\* Ok(Directory { lump_locations }), the new WadFile with no lumps, and
\* wad_file.build_indices(&lump_locations).
OpenBuildIndices ==
    /\ open_pc = "directory"
    /\ Len(lump_locations) = lump_count
    /\ lumps' = << >>
    /\ lump_indices' = build_indices(lump_locations)
    /\ open_pc' = "lumps"
    /\ UNCHANGED <<file_bytes, kind, lump_count, directory_offset, lump_locations,
                   opened>>
    /\ UNCHANGED <<call, result, stackVars, patchVars, bankVars>>

\* OpenReadLump that keeps whatever bytes the file has.
OpenReadLump_keeps_short ==
    /\ open_pc = "lumps"
    /\ Len(lumps) < Len(lump_locations)
    /\ LET location == At(lump_locations, Len(lumps))
           bytes    == ReadUpTo(location.offset, location.size)
       IN /\ lumps' = Append(lumps, [name |-> location.name, data |-> bytes])
          /\ UNCHANGED <<file_bytes, open_pc, kind, lump_count, directory_offset,
                         lump_locations, opened, lump_indices>>
    /\ UNCHANGED <<call, result, stackVars, patchVars, bankVars>>

\* One round of read_lumps' loop: up to `size` bytes are read at `offset`;
\* fewer than `size` is the error "outside of file"; assert!(data.len() ==
\* size); the lump is pushed.
OpenReadLump ==
    /\ open_pc = "lumps"
    /\ Len(lumps) < Len(lump_locations)
    /\ LET location == At(lump_locations, Len(lumps))
           bytes    == ReadUpTo(location.offset, location.size)
       IN IF Len(bytes) < location.size
          THEN OpenFail(Malformed("outside of file", location))
          ELSE IF Len(bytes) # location.size
          THEN /\ open_pc' = "panic"
               /\ UNCHANGED <<file_bytes, kind, lump_count, directory_offset,
                              lump_locations, opened, lumps, lump_indices>>
          ELSE /\ lumps' = Append(lumps, [name |-> location.name, data |-> bytes])
               /\ UNCHANGED <<file_bytes, open_pc, kind, lump_count,
                              directory_offset, lump_locations, opened,
                              lump_indices>>
    /\ UNCHANGED <<call, result, stackVars, patchVars, bankVars>>

\* Ok(wad_file)
OpenReturn ==
    /\ open_pc = "lumps"
    /\ Len(lumps) = Len(lump_locations)
    /\ open_pc' = "returned"
    /\ opened' = [tag |-> "Ok", kind |-> kind, lumps |-> lumps,
                  lump_indices |-> lump_indices]
    /\ UNCHANGED <<file_bytes, kind, lump_count, directory_offset, lump_locations,
                   lumps, lump_indices>>
    /\ UNCHANGED <<call, result, stackVars, patchVars, bankVars>>

\* The files that are opened: a header, the directory right after it, and four
\* bytes of lump data after the directory.
Content == <<1, 2, 3, 4>>

\* Where a lump may lie when the data starts at c: all of it, its last two
\* bytes, two bytes more than there are, nothing of it, and nothing or two
\* bytes far past the end of the file.
Extents(c) == {<<c, 4>>, <<c + 2, 2>>, <<c + 2, 4>>, <<c, 0>>, <<200, 0>>, <<200, 2>>}

\* "A1", "a", the empty name, "A" with a 'B' after its zero byte, "ABCDEFGH",
\* "[-_]\" and "A*", as the 8 bytes of a name field.
EntryNames ==
    {Pad8(<<65, 49>>), Pad8(<<97>>), Pad8(<< >>), Pad8(<<65, 0, 66>>),
     <<65, 66, 67, 68, 69, 70, 71, 72>>, Pad8(<<91, 45, 95, 93, 92>>),
     Pad8(<<65, 42>>)}

DirectoryEntry(extent, raw) == LE32(extent[1]) \o LE32(extent[2]) \o raw

WadBytes(magic, n, entries) ==
    magic \o LE32(n) \o LE32(12) \o Concat(entries) \o Content

\* What an entry may be when the data starts at c: the lump "A1" with any
\* extent, or a lump of any name that is all of the data.
Entries(c) ==
    {DirectoryEntry(e, Pad8(<<65, 49>>)) : e \in Extents(c)}
    \cup {DirectoryEntry(<<c, 4>>, raw) : raw \in EntryNames}

\* Every file of n entries.
WadsOf(n) == {WadBytes(IWAD, n, entries) : entries \in [1..n -> Entries(12 + 16 * n)]}

\* A file of n whole lumps, and all its truncations.
CutWads(n) ==
    Prefixes(WadBytes(PWAD, n,
                      [i \in 1..n |-> DirectoryEntry(<<12 + 16 * n + i - 1, 2>>,
                                                     Pad8(<<65, 48 + i>>))]))

\* A file that is not a WAD.
NotAWad == <<88, 87, 65, 68>> \o LE32(0) \o LE32(12)

WadFiles(maxEntries) ==
    UNION {WadsOf(n) \cup CutWads(n) : n \in 0..maxEntries} \cup {NotAWad}

(***************************************************************************)
(* Spec: one opened WadFile and its queries.                               *)
(***************************************************************************)
NoCall == [op |-> "none", start |-> "", end |-> "", size |-> 0]

\* The other components' variables when they play no part.
StackIdle ==
    /\ stack = "none"
    /\ wads = << >>
    /\ stackCall = NoStackCall
    /\ stackResult = Absent

PatchIdle ==
    /\ data = << >>
    /\ pc = "idle"
    /\ cursor = 0
    /\ width = 0
    /\ height = 0
    /\ top = 0
    /\ left = 0
    /\ column_offsets = << >>
    /\ column = 0
    /\ columns = << >>
    /\ posts = << >>
    /\ last_y_offset = -1
    /\ patch = NoPatch
    /\ lump_name = << >>

NoBank == [tag |-> "None"]

BankIdle ==
    /\ bank_pc = "idle"
    /\ names_cursor = 0
    /\ count = 0
    /\ patches = << >>
    /\ bank = NoBank

NoWad == [tag |-> "None"]

OpenIdle ==
    /\ file_bytes = << >>
    /\ open_pc = "idle"
    /\ kind = ""
    /\ lump_count = 0
    /\ directory_offset = 0
    /\ lump_locations = << >>
    /\ opened = NoWad

WadIdle ==
    /\ lumps = << >>
    /\ lump_indices = EmptyMap
    /\ call = NoCall
    /\ result = None

\* The state open() leaves: the lumps in directory order and the indices
\* build_indices made of them.
Init ==
    /\ lumps \in SeqsUpTo(Lump, MaxLumps)
    /\ lump_indices = build_indices(lumps)
    /\ call = NoCall
    /\ result = None
    /\ StackIdle
    /\ PatchIdle
    /\ BankIdle
    /\ OpenIdle

Sizes == 0..MaxLumps

Query(op, start, end, size, r) ==
    /\ call' = [op |-> op, start |-> start, end |-> end, size |-> size]
    /\ result' = r
    /\ UNCHANGED <<lumps, lump_indices, stackVars, patchVars, bankVars, openVars>>

LumpQ == \E name \in Names : Query("lump", name, "", 0, lump(name))

TryLumpQ == \E name \in Names : Query("try_lump", name, "", 0, try_lump(name))

LumpsFollowingQ ==
    \E name \in Names, size \in Sizes :
        Query("lumps_following", name, "", size, lumps_following(name, size))

TryLumpsFollowingQ ==
    \E name \in Names, size \in Sizes :
        Query("try_lumps_following", name, "", size,
              try_lumps_following(name, size))

LumpsBetweenQ ==
    \E start \in Names, end \in Names :
        Query("lumps_between", start, end, 0, lumps_between(start, end))

TryLumpsBetweenQ ==
    \E start \in Names, end \in Names :
        Query("try_lumps_between", start, end, 0, try_lumps_between(start, end))

Next ==
    \/ LumpQ
    \/ TryLumpQ
    \/ LumpsFollowingQ
    \/ TryLumpsFollowingQ
    \/ LumpsBetweenQ
    \/ TryLumpsBetweenQ

Spec == Init /\ [][Next]_vars

(***************************************************************************)
(* Claims about the WadFile queries, stated over the directory itself      *)
(* (lumps), not over lump_indices.                                         *)
(***************************************************************************)
\* The directory positions that carry a name.
Positions(name) == {i \in 0..(Len(lumps) - 1) : At(lumps, i).name = name}

Occurs(name) == Cardinality(Positions(name))

\* The position of a name that occurs once.
Position(name) == CHOOSE i \in Positions(name) : TRUE

Following == {"lumps_following", "try_lumps_following"}

Between == {"lumps_between", "try_lumps_between"}

\* C1: lump(name) returns the lump at the one directory position carrying the
\* name when the name occurs exactly once, fails "missing" when it occurs
\* nowhere and fails as ambiguous when it occurs twice or more; try_lump(name)
\* differs only in returning Ok(None) for a name that occurs nowhere.
C1_UniqueLookup ==
    call.op \in {"lump", "try_lump"} =>
        /\ Occurs(call.start) = 1 =>
               result = Ok(Position(call.start),
                           <<At(lumps, Position(call.start))>>)
        /\ Occurs(call.start) >= 2 => result = Err("found n times")
        /\ Occurs(call.start) = 0 =>
               result = IF call.op = "lump" THEN Err("missing") ELSE None

\* A unique lookup that found its lump behind a name that occurs twice.
C1_Witness ==
    /\ call.op = "lump"
    /\ result.tag = "Ok"
    /\ result.start >= 2
    /\ \E n \in Names : Occurs(n) >= 2

\* C2 as amended: for a unique marker at index s and n >= 1, a successful
\* lumps_following(marker, n) returns exactly the n lumps at indices
\* s..s+n-1 in directory order: the marker first, then the next n-1 lumps.
C2_FollowingIsMarkerPlusNMinus1 ==
    (call.op \in Following /\ result.tag = "Ok") =>
        /\ call.size >= 1
        /\ Occurs(call.start) = 1
        /\ result.start = Position(call.start)
        /\ Len(result.lumps) = call.size
        /\ \A i \in 0..(call.size - 1) :
               At(result.lumps, i) = At(lumps, Position(call.start) + i)
        /\ At(result.lumps, 0).name = call.start

\* A successful block of two lumps from a marker that is not the first lump.
C2_Witness ==
    /\ call.op = "lumps_following"
    /\ result.tag = "Ok"
    /\ call.size = 2
    /\ result.start >= 1

\* C2 as claimed: a successful lumps_following(marker, n) returns the n+1 lumps
\* at indices s..s+n, the marker plus the next n lumps.
C2_Original ==
    (call.op \in Following /\ result.tag = "Ok") =>
        /\ Len(result.lumps) = call.size + 1
        /\ \A i \in 0..call.size :
               At(result.lumps, i) = At(lumps, Position(call.start) + i)

C4_BetweenIsInclusive ==
    (/\ call.op \in Between
     /\ Occurs(call.start) = 1
     /\ Occurs(call.end) = 1
     /\ Position(call.start) <= Position(call.end)) =>
        LET s == Position(call.start)
            e == Position(call.end)
        IN /\ result.tag = "Ok"
           /\ result.start = s
           /\ Len(result.lumps) = e - s + 1
           /\ \A i \in 0..(e - s) : At(result.lumps, i) = At(lumps, s + i)
           /\ At(result.lumps, 0).name = call.start
           /\ At(result.lumps, e - s).name = call.end

\* A block with a lump between its two markers.
C4_Witness ==
    /\ call.op = "lumps_between"
    /\ result.tag = "Ok"
    /\ Len(result.lumps) >= 3
    /\ call.start # call.end

\* C5: lumps_between(start, end) fails whenever a marker is missing or the
\* start marker comes after the end marker, so the swapped call of a valid
\* pair fails and no reversed or empty slice is returned; try_lumps_between
\* returns Ok(None) only when both markers are absent and fails when exactly
\* one is.
C5_BetweenFails ==
    call.op \in Between =>
        LET noStart == Occurs(call.start) = 0
            noEnd   == Occurs(call.end) = 0
            swapped == /\ Occurs(call.start) = 1
                       /\ Occurs(call.end) = 1
                       /\ Position(call.start) > Position(call.end)
        IN /\ (noStart /\ noEnd) =>
                  result = IF call.op = "lumps_between"
                           THEN Err("missing") ELSE None
           /\ (noStart /\ ~noEnd) => result.tag = "Err"
           /\ (noEnd /\ ~noStart) => result.tag = "Err"
           /\ swapped => result = Err("start after end")
           /\ result.tag = "None" => (noStart /\ noEnd)
           /\ result.tag = "Ok" =>
                  /\ Len(result.lumps) >= 1
                  /\ At(result.lumps, 0).name = call.start
                  /\ At(result.lumps, Len(result.lumps) - 1).name = call.end
                  /\ Position(call.start) <= Position(call.end)

\* The swapped call of a valid pair, which failed.
C5_Witness ==
    /\ call.op = "lumps_between"
    /\ Occurs(call.start) = 1
    /\ Occurs(call.end) = 1
    /\ Position(call.start) > Position(call.end)
    /\ result.tag = "Err"

(***************************************************************************)
(* SpecStack: a WadStack being built and queried.                          *)
(***************************************************************************)
InitStack ==
    /\ StackIdle
    /\ WadIdle
    /\ PatchIdle
    /\ BankIdle
    /\ OpenIdle

StackCall(op, path, start, end, size, ok, desc) ==
    [op |-> op, path |-> path, start |-> start, end |-> end, size |-> size,
     ok |-> ok, desc |-> desc]

\* WadStack::iwad(file): a new stack, or the error and no stack.
Iwad ==
    \E file \in Files :
        LET r == iwad_impl(file) IN
        /\ stack = "none"
        /\ stack' = IF r.ok THEN "checked" ELSE "none"
        /\ wads' = r.wads
        /\ stackCall' = StackCall("iwad", file.path, "", "", 0, r.ok, r.desc)
        /\ stackResult' = Absent
        /\ UNCHANGED <<wadVars, patchVars, bankVars, openVars>>

\* stack.add_pwad(file): the stack is kept whether or not the call fails.
AddPwad ==
    \E file \in Files :
        LET r == add_pwad_impl(file) IN
        /\ stack # "none"
        /\ Len(wads) < MaxWads
        /\ wads' = r.wads
        /\ stackCall' = StackCall("add_pwad", file.path, "", "", 0, r.ok, r.desc)
        /\ stackResult' = Absent
        /\ UNCHANGED <<stack, wadVars, patchVars, bankVars, openVars>>

\* stack.pwad(file): self.add_pwad(file)?; Ok(self).  The stack is moved into
\* the call, so a failure drops it and the caller is left with no stack.
Pwad ==
    \E file \in Files :
        LET r == add_pwad_impl(file) IN
        /\ stack # "none"
        /\ Len(wads) < MaxWads
        /\ stack' = IF r.ok THEN stack ELSE "none"
        /\ wads' = IF r.ok THEN r.wads ELSE << >>
        /\ stackCall' = StackCall("pwad", file.path, "", "", 0, r.ok, r.desc)
        /\ stackResult' = Absent
        /\ UNCHANGED <<wadVars, patchVars, bankVars, openVars>>

\* WadStack::new(): an empty stack with no type checking.
New ==
    /\ stack = "none"
    /\ stack' = "unchecked"
    /\ wads' = << >>
    /\ stackCall' = StackCall("new", "", "", "", 0, TRUE, "")
    /\ stackResult' = Absent
    /\ UNCHANGED <<wadVars, patchVars, bankVars, openVars>>

\* stack.add(wad): any opened file is pushed, whatever its type.
Add ==
    \E file \in {f \in Files : f.opens} :
        /\ stack # "none"
        /\ Len(wads) < MaxWads
        /\ stack' = "unchecked"
        /\ wads' = Append(wads, file)
        /\ stackCall' = StackCall("add", file.path, "", "", 0, TRUE, "")
        /\ stackResult' = Absent
        /\ UNCHANGED <<wadVars, patchVars, bankVars, openVars>>

StackQuery(op, start, end, size, r) ==
    /\ stack # "none"
    /\ stackCall' = StackCall(op, "", start, end, size, TRUE, "")
    /\ stackResult' = r
    /\ UNCHANGED <<stack, wads, wadVars, patchVars, bankVars, openVars>>

StackLumpQ ==
    \E name \in QueryNames : StackQuery("lump", name, "", 0, stack_lump(name))

StackLumpsAfterQ ==
    \E start \in QueryNames, size \in BlockSizes :
        StackQuery("lumps_after", start, "", size, stack_lumps_after(start, size))

StackLumpsBetweenQ ==
    \E start \in QueryNames, end \in QueryNames :
        StackQuery("lumps_between", start, end, 0,
                   stack_lumps_between(start, end))

NextStack ==
    \/ Iwad
    \/ AddPwad
    \/ Pwad
    \/ New
    \/ Add
    \/ StackLumpQ
    \/ StackLumpsAfterQ
    \/ StackLumpsBetweenQ

SpecStack == InitStack /\ [][NextStack]_vars

(***************************************************************************)
(* Claims about the WadStack.  A source "has" a name, or "can satisfy" a   *)
(* block query, when its own answer to the query is not None.              *)
(***************************************************************************)
Sources == 0..(Len(wads) - 1)

Max(S) == CHOOSE m \in S : \A x \in S : x <= m

\* What source src itself answers to the stack's last query.
SourceAnswer(src) ==
    CASE stackCall.op = "lump" -> WadLump(src, stackCall.start)
      [] stackCall.op = "lumps_after" ->
             WadLumpsAfter(src, stackCall.start, stackCall.size)
      [] stackCall.op = "lumps_between" ->
             WadLumpsBetween(src, stackCall.start, stackCall.end)
      [] OTHER -> Absent

Satisfying == {src \in Sources : SourceAnswer(src).tag = "Some"}

\* The result is a slice of the lumps of the one source it names.
FromOneSource(r) ==
    /\ r.src \in Sources
    /\ \A i \in 0..(Len(r.lumps) - 1) :
           /\ r.start + i < Len(At(wads, r.src).lumps)
           /\ At(r.lumps, i) = At(At(wads, r.src).lumps, r.start + i)

\* C6: stack.lump(name) returns the match of the most recently added source
\* that has the name, and returns not-found only when no source has it.
C6_LatestSourceWins ==
    stackCall.op = "lump" =>
        IF Satisfying = {}
        THEN stackResult = Absent
        ELSE /\ stackResult = SourceAnswer(Max(Satisfying))
             /\ stackResult.src = Max(Satisfying)
             /\ Len(stackResult.lumps) = 1
             /\ At(stackResult.lumps, 0).name = stackCall.start
             /\ FromOneSource(stackResult)

\* Two sources define the lump with different contents and the later one's is
\* returned, while the source added last lacks the name.
C6_Witness ==
    /\ stackCall.op = "lump"
    /\ Cardinality(Satisfying) >= 2
    /\ stackResult.tag = "Some"
    /\ stackResult.src < Len(wads) - 1
    /\ \E a \in Satisfying : SourceAnswer(a).lumps # stackResult.lumps

\* C7: a block query on the stack returns exactly what one single source gives
\* for the whole query, the most recently added source that can satisfy it;
\* every lump of the block is that source's, also when an earlier source has a
\* different block under the same marker, and a block that only an earlier
\* source can give is that earlier source's.
C7_WholeBlockFromOneSource ==
    stackCall.op \in {"lumps_after", "lumps_between"} =>
        IF Satisfying = {}
        THEN stackResult = Absent
        ELSE /\ stackResult = SourceAnswer(Max(Satisfying))
             /\ stackResult.src = Max(Satisfying)
             /\ FromOneSource(stackResult)
             /\ stackCall.op = "lumps_after" =>
                    Len(stackResult.lumps) = stackCall.size

\* A block of two lumps that two sources give with different contents, asked
\* of a stack whose last source has the marker but not the whole block.
C7_Witness ==
    /\ stackCall.op = "lumps_after"
    /\ stackCall.size = 2
    /\ Cardinality(Satisfying) >= 2
    /\ stackResult.tag = "Some"
    /\ stackResult.src < Len(wads) - 1
    /\ IsUnique(At(wads, Len(wads) - 1), stackCall.start)
    /\ \E a \in Satisfying : SourceAnswer(a).lumps # stackResult.lumps

FileOf(path) == CHOOSE f \in Files : f.path = path

KindsInOrder ==
    /\ Len(wads) >= 1
    /\ At(wads, 0).wad_type = "Iwad"
    /\ \A i \in 1..(Len(wads) - 1) : At(wads, i).wad_type = "Pwad"

\* A call of a checked helper on a stack built by the checked helpers.
CheckedStep ==
    LET file == FileOf(stackCall'.path) IN
    /\ stackCall'.op = "iwad" =>
           /\ (file.opens /\ file.wad_type = "Pwad") =>
                  (~stackCall'.ok /\ stackCall'.desc = "not an IWAD")
           /\ stackCall'.ok => (stack' = "checked" /\ wads' = <<file>>)
           /\ ~stackCall'.ok => (stack' = "none" /\ wads' = << >>)
    /\ (stack = "checked" /\ stackCall'.op \in {"add_pwad", "pwad"}) =>
           /\ (file.opens /\ file.wad_type = "Iwad") =>
                  (~stackCall'.ok /\ stackCall'.desc = "not a PWAD")
           /\ stackCall'.ok => (stack' = "checked" /\ wads' = Append(wads, file))
           /\ (~stackCall'.ok /\ stackCall'.op = "add_pwad") =>
                  (stack' = "checked" /\ wads' = wads)
           /\ (~stackCall'.ok /\ stackCall'.op = "pwad") => stack' = "none"
    /\ (stack = "checked" /\ stack' = "checked") =>
           (wads' = wads \/ (stackCall'.ok /\ wads' = Append(wads, file)))

\* C8: for a stack built by iwad and then add_pwad/pwad calls, starting from a
\* PWAD fails with a type error, adding an IWAD fails with a type error, a
\* failed add leaves the sources as they were and a successful one appends the
\* file; so source 0 is an IWAD and every later source a PWAD.
C8_CheckedHelpersKeepKinds ==
    /\ [](stack = "checked" => KindsInOrder)
    /\ [][CheckedStep]_vars

\* A checked stack of two sources on which adding an IWAD has just failed.
C8_Witness ==
    /\ stack = "checked"
    /\ Len(wads) = 2
    /\ stackCall.op = "add_pwad"
    /\ ~stackCall.ok
    /\ stackCall.desc = "not a PWAD"

(***************************************************************************)
(* SpecPatch: Patch::load on one lump.                                     *)
(***************************************************************************)
InitPatch ==
    /\ data \in ShortLumps(MaxWidth, MaxItems) \cup {TallLump(MaxTallPosts)}
    /\ pc = "header"
    /\ cursor = 0
    /\ width = 0
    /\ height = 0
    /\ top = 0
    /\ left = 0
    /\ column_offsets = << >>
    /\ column = 0
    /\ columns = << >>
    /\ posts = << >>
    /\ last_y_offset = -1
    /\ patch = NoPatch
    /\ lump_name = "PATCH"
    /\ WadIdle
    /\ StackIdle
    /\ BankIdle
    /\ OpenIdle

NextPatch ==
    \/ ReadHeader
    \/ ReadColumnOffset
    \/ StartColumn
    \/ ReadPost
    \/ Finish

SpecPatch == InitPatch /\ [][NextPatch]_vars

(***************************************************************************)
(* Claims about Patch::load.                                               *)
(***************************************************************************)
\* The raw y-offset byte of a post: three bytes before its pixels.
RawY(post) == Byte(post.start - 3)

\* The run length byte of a post: two bytes before its pixels.
RunLength(post) == Byte(post.start - 2)

\* The columns decoded so far, the one being read among them.
DecodedColumns ==
    {columns[i] : i \in 1..Len(columns)} \cup {posts}

\* The tall-patch rule as claimed, for one column.
FollowsTallPatchRule(col) ==
    \A j \in 1..Len(col) :
        col[j].y_offset =
            IF j = 1 THEN RawY(col[j])
            ELSE IF RawY(col[j]) <= col[j - 1].y_offset
                 THEN col[j - 1].y_offset + RawY(col[j])
                 ELSE RawY(col[j])

\* C9: in every column the first post's resolved y-offset is its raw byte, and
\* a later post's is the previous resolved y-offset plus its raw byte when the
\* raw byte is <= the previous resolved y-offset, and its raw byte otherwise;
\* no column's first post inherits from the column before.
C9_TallPatchRule == \A col \in DecodedColumns : FollowsTallPatchRule(col)

\* A returned patch is complete: as many columns as the header declares, and
\* every post's pixels an in-bounds slice of the lump of the declared length.
Complete(p) ==
    /\ p.width = U16At(0)
    /\ Len(p.columns) = p.width
    /\ \A i \in 1..Len(p.columns) :
           \A j \in 1..Len(p.columns[i]) :
               LET post == p.columns[i][j] IN
               /\ 0 <= post.start
               /\ post.start <= post.end
               /\ post.end <= Len(data)
               /\ post.end - post.start = RunLength(post)

\* C10: for every lump, Patch::load either returns a complete Patch or fails
\* Malformed naming the lump; it never panics and returns nothing partial.
C10_CompleteOrMalformed ==
    /\ pc # "panic"
    /\ pc = "returned" =>
           \/ patch = BadPatch
           \/ (patch.tag = "Ok" /\ Complete(patch))
    /\ pc # "returned" => patch = NoPatch

\* C12: a decoded Patch's header fields follow the picture layout: width is
\* the u16 at bytes 0-1, height the u16 at bytes 2-3, left the i16 at bytes
\* 4-5 and top the i16 at bytes 6-7, all little-endian.
C12_HeaderLayout ==
    (pc = "returned" /\ patch.tag = "Ok") =>
        /\ patch.width = U16At(0)
        /\ patch.height = U16At(2)
        /\ patch.left = I16(U16At(4))
        /\ patch.top = I16(U16At(6))

\* What the claim allows one round of the post loop to do: stop at the
\* terminator, fail at the end of the buffer, or go on at least 4 bytes
\* further.
PostRound ==
    pc = "posts" =>
        \/ pc' = "columns" /\ Byte(cursor) = 255
        \/ pc' = "returned" /\ patch'.tag = "Err"
        \/ pc' = "posts" /\ cursor' >= cursor + 4

\* C15: every round of the per-column post loop stops at a 0xFF terminator,
\* fails on end-of-buffer or advances the cursor by at least 4 bytes, so no
\* column makes the decoder loop forever.
C15_PostLoopAdvances == [][PostRound]_vars

\* The next round of the post loop adds the raw y-offset under the cursor to
\* the last resolved one.
AboutToAdd ==
    /\ pc = "posts"
    /\ CanRead(1)
    /\ Byte(cursor) # 255
    /\ last_y_offset >= 0
    /\ Byte(cursor) <= last_y_offset

\* C16: the u16 addition of the tall-patch rule never overflows: no sum that
\* is about to be made passes 65535, every resolved y-offset that was summed
\* is the exact sum and at most 65535, and the addition never panics.
C16_SumNeverOverflows ==
    /\ pc # "panic"
    /\ AboutToAdd => last_y_offset + Byte(cursor) <= U16Max
    /\ \A col \in DecodedColumns :
           \A j \in 2..Len(col) :
               RawY(col[j]) <= col[j - 1].y_offset =>
                   /\ col[j].y_offset <= U16Max
                   /\ col[j].y_offset = col[j - 1].y_offset + RawY(col[j])

(***************************************************************************)
(* SpecBank: PatchBank::load on one archive.                               *)
(***************************************************************************)
InitBank ==
    /\ lumps \in UNION {BankWads(d, MaxTallPosts) : d \in NameLists(MaxNames)}
    /\ lump_indices = build_indices(lumps)
    /\ call = NoCall
    /\ result = None
    /\ StackIdle
    /\ PatchIdle
    /\ bank_pc = "start"
    /\ names_cursor = 0
    /\ count = 0
    /\ patches = << >>
    /\ bank = NoBank
    /\ OpenIdle

NextBank ==
    \/ BankStart
    \/ BankReadName
    \/ ReadHeader
    \/ ReadColumnOffset
    \/ StartColumn
    \/ ReadPost
    \/ Finish
    \/ BankPush
    \/ BankFinish

SpecBank == InitBank /\ [][NextBank]_vars

(***************************************************************************)
(* Claims about PatchBank::load, stated over the directory and the bytes   *)
(* of its PNAMES lump.                                                     *)
(***************************************************************************)
\* The bytes of the name list, when the directory has exactly one PNAMES.
ListData == At(lumps, Position(PNAMES)).data

\* The count the list declares.
Declared == U32Of(ListData, 0)

\* The 0-based i-th entry is there in full.
EntryThere(i) == 4 + 8 * (i + 1) <= Len(ListData)

RawEntry(i) == [j \in 1..8 |-> ListData[4 + 8 * i + j]]

\* The i-th entry upper-cased, without its padding.
EntryName(i) ==
    TakeWhileNonZero([j \in 1..8 |-> to_ascii_uppercase(RawEntry(i)[j])])

\* p is a decode of the picture d: its size is the header's, it has a column
\* for each column the header declares, and every post's pixels are a slice of
\* d of the length d gives for it.
IsDecodeOf(p, d) ==
    /\ p.width = d[1] + 256 * d[2]
    /\ p.height = d[3] + 256 * d[4]
    /\ Len(p.columns) = p.width
    /\ \A i \in 1..Len(p.columns) :
           \A j \in 1..Len(p.columns[i]) :
               LET post == p.columns[i][j] IN
               /\ 0 <= post.start
               /\ post.start <= post.end
               /\ post.end <= Len(d)
               /\ post.end - post.start = d[post.start - 1]

\* What a successful load returns: as many patches as the list declares, the
\* i-th the decode of the one lump that carries the i-th entry's upper-cased
\* name.
TableOfList(t) ==
    /\ Occurs(PNAMES) = 1
    /\ Len(ListData) >= 4
    /\ Len(t) = Declared
    /\ \A i \in 0..(Declared - 1) :
           /\ EntryThere(i)
           /\ LUMP_NAME_REGEX(EntryName(i))
           /\ Occurs(EntryName(i)) = 1
           /\ At(t, i).name = EntryName(i)
           /\ IsDecodeOf(At(t, i), At(lumps, Position(EntryName(i))).data)

\* A picture that failed to decode ends the load with that failure.
DecodeFailureAborts ==
    (bank_pc = "loading" /\ pc = "returned" /\ patch.tag = "Err") =>
        (bank_pc' = "returned" /\ bank' = patch)

\* C11: a successful load returns exactly `count` patches, the patch at
\* position i being the decode of the lump named by the upper-cased i-th entry
\* of the name list, duplicates kept; a truncated list, an illegal name, a
\* missing or ambiguous lump or a picture that fails to decode fails the whole
\* load, which then returns an error and no table.
C11_OrderedAllOrNothing ==
    /\ [](bank_pc = "returned" =>
              /\ bank.tag \in {"Ok", "Err"}
              /\ bank.tag = "Ok" => TableOfList(bank.patches)
              /\ bank.tag = "Err" => "patches" \notin DOMAIN bank)
    /\ [](bank_pc # "returned" => bank = NoBank)
    /\ [][DecodeFailureAborts]_vars

\* A table of two different patches, the first listed in lowercase.
C11_Witness ==
    /\ bank_pc = "returned"
    /\ bank.tag = "Ok"
    /\ Len(bank.patches) = 2
    /\ At(bank.patches, 0).name # At(bank.patches, 1).name
    /\ \E j \in 1..8 : RawEntry(0)[j] \in 97..122

(***************************************************************************)
(* SpecOpen: WadFile::open on one file.                                    *)
(***************************************************************************)
InitOpen ==
    /\ file_bytes \in WadFiles(MaxEntries)
    /\ open_pc = "header"
    /\ kind = ""
    /\ lump_count = 0
    /\ directory_offset = 0
    /\ lump_locations = << >>
    /\ opened = NoWad
    /\ WadIdle
    /\ StackIdle
    /\ PatchIdle
    /\ BankIdle

NextOpen ==
    \/ OpenHeader
    \/ OpenDirectoryEntry
    \/ OpenBuildIndices
    \/ OpenReadLump
    \/ OpenReturn

SpecOpen == InitOpen /\ [][NextOpen]_vars

(***************************************************************************)
(* Claims about WadFile::open, stated over the bytes of the file.          *)
(***************************************************************************)
\* The header is there and its magic is IWAD or PWAD.
HeaderParses ==
    /\ Len(file_bytes) >= 12
    /\ SubSeq(file_bytes, 1, 4) \in {IWAD, PWAD}

\* What the header declares.
DeclaredLumps == U32Of(file_bytes, 4)

DeclaredDirectory == U32Of(file_bytes, 8)

\* The 0-based i-th directory entry: where it lies, whether it is there in
\* full, and its three fields.
EntryAt(i) == DeclaredDirectory + 16 * i

EntryInFile(i) == EntryAt(i) + 16 <= Len(file_bytes)

EntryOffset(i) == U32Of(file_bytes, EntryAt(i))

EntrySize(i) == U32Of(file_bytes, EntryAt(i) + 4)

EntryRawName(i) == SubSeq(file_bytes, EntryAt(i) + 9, EntryAt(i) + 16)

\* The name the directory gives entry i: its raw name without the padding.
EntryLumpName(i) == TakeWhileNonZero(EntryRawName(i))

\* The whole directory was read and every name in it accepted.
DirectoryParses ==
    /\ HeaderParses
    /\ \A i \in 0..(DeclaredLumps - 1) :
           EntryInFile(i) /\ LUMP_NAME_REGEX(EntryLumpName(i))

\* How many bytes of [offset, offset + size) the file has.
Available(i) ==
    IF EntryOffset(i) >= Len(file_bytes) THEN 0
    ELSE Min(EntryOffset(i) + EntrySize(i), Len(file_bytes)) - EntryOffset(i)

TooShort == {i \in 0..(DeclaredLumps - 1) : Available(i) < EntrySize(i)}

FirstTooShort == CHOOSE i \in TooShort : \A j \in TooShort : i <= j

\* C13: a successful open holds one lump per directory entry, in directory
\* order, lump i with entry i's name and exactly the `size` bytes of the file
\* at [offset, offset + size); the assertion data.len() == size never fails;
\* when the file has fewer than `size` bytes for some entry, open fails
\* Malformed naming that lump, and a failed open returns no reader.
C13_LumpsAllOrNothing ==
    /\ open_pc # "panic"
    /\ open_pc # "returned" => opened = NoWad
    /\ open_pc = "returned" =>
           /\ opened.tag \in {"Ok", "Err"}
           /\ opened.tag = "Ok" =>
                  /\ DirectoryParses
                  /\ TooShort = {}
                  /\ Len(opened.lumps) = DeclaredLumps
                  /\ \A i \in 0..(DeclaredLumps - 1) :
                         /\ At(opened.lumps, i).name = EntryLumpName(i)
                         /\ Len(At(opened.lumps, i).data) = EntrySize(i)
                         /\ \A k \in 0..(EntrySize(i) - 1) :
                                At(At(opened.lumps, i).data, k)
                                    = At(file_bytes, EntryOffset(i) + k)
           /\ opened.tag = "Err" => "lumps" \notin DOMAIN opened
           /\ (DirectoryParses /\ TooShort # {}) =>
                  /\ opened.tag = "Err"
                  /\ opened.kind = "Malformed"
                  /\ opened.desc = "outside of file"
                  /\ opened.what =
                         LumpLocation(EntryOffset(FirstTooShort),
                                      EntrySize(FirstTooShort),
                                      EntryLumpName(FirstTooShort))

\* Two lumps were read, the first ending with the last byte of the file, the
\* second of no bytes from past its end.
C13_Witness ==
    /\ open_pc = "returned"
    /\ opened.tag = "Ok"
    /\ Len(opened.lumps) = 2
    /\ Len(At(opened.lumps, 0).data) = 2
    /\ EntryOffset(0) + EntrySize(0) = Len(file_bytes)
    /\ EntryOffset(1) > Len(file_bytes)

\* A raw name without its trailing zero bytes, and only those.
StripTrailingZeros(raw) ==
    LET nonzero == {i \in 1..Len(raw) : raw[i] # 0} IN
    IF nonzero = {} THEN << >>
    ELSE SubSeq(raw, 1, CHOOSE i \in nonzero : \A j \in nonzero : j <= i)

\* The entries whose name, stripped of its trailing zero bytes, is empty or
\* has a character outside A-Z, 0-9, '[', ']', '-', '_' and '\'.
IllegalEntries ==
    {i \in 0..(DeclaredLumps - 1) :
         ~LUMP_NAME_REGEX(StripTrailingZeros(EntryRawName(i)))}

\* C14: open accepts a directory entry if and only if its 8-byte raw name,
\* stripped of its trailing zero bytes only, is non-empty and made of the
\* characters A-Z, 0-9, '[', ']', '-', '_' and '\'; an all-zero name, a
\* lowercase letter or a zero byte followed by non-zero bytes fails the open
\* as Malformed.
C14_NameValidation ==
    (/\ open_pc = "returned"
     /\ HeaderParses
     /\ \A i \in 0..(DeclaredLumps - 1) : EntryInFile(i)) =>
        /\ IllegalEntries # {} =>
               /\ opened.tag = "Err"
               /\ opened.kind = "Malformed"
               /\ opened.desc = "illegal lump name"
        /\ (opened.tag = "Err" /\ opened.desc = "illegal lump name") =>
               IllegalEntries # {}

====
